---------------------------- MODULE Spec2Model ----------------------------
(***************************************************************************)
(* Model of src/emission_report.py: the greenhouse-gas emission report     *)
(* service.  Four specifications share the module:                         *)
(*   SpecNum     safe_float_convert on one value                           *)
(*   SpecCsv     csv_string_to_dataframe on one CSV text                   *)
(*   SpecMetrics calculate_variables on one request payload                *)
(*   Spec        generate_report: the request handlers on the event loop   *)
(*                                                                         *)
(* Text is a sequence of one-character strings.  The Korean labels of the  *)
(* source are written in ASCII, one token per label, and are treated as a  *)
(* single character of the text:                                           *)
(*   "GUBUN" = '구분'   "SEBU" = '세부구분'   "TOTAL" = '총합'             *)
(*   "HAPGYE" = '합계'  "GRANDTOTAL" = '총합계'                            *)
(*   "REPORT" = '보고대상연도 배출량(tCO2eq)'                              *)
(*   "BASE" = '기준연도 배출량(tCO2eq)'  "PREV" = '전년도 배출량(tCO2eq)'  *)
(*   "S1" = 'Scope 1'  "S2" = 'Scope 2'  "S3" = 'Scope 3'                  *)
(***************************************************************************)
EXTENDS Integers, Sequences, FiniteSets, TLC

VARIABLES
    numIn, numOut, numPc,           \* safe_float_convert: argument, result, position
    csvText, csvPc, csvDf, csvLog,  \* csv_string_to_dataframe: argument, position, result, path taken
    mReq, mOut, mPc,                \* calculate_variables: request payload, result, position
    payload,        \* generate_report: the ReportRequest of each request (its position in Payloads)
    pc,             \* the line each request's handler is at
    loop,           \* the request whose handler the event loop is running (0: none)
    fs,             \* the temporary directories: owner (0: no such directory) and files
    temp_dir,       \* the handler's temp_dir (0: None)
    variables,      \* how calculate_variables ended: returned, or raised which error
    doc,            \* the parts of the Document assembled so far
    chart_path,     \* what create_emission_chart returned
    response,       \* what the request was answered with
    errAt,          \* the call that raised into the handler's except block
    written,        \* the files the request ever wrote
    rcParams,       \* matplotlib's process-wide rcParams['font.family']
    figs,           \* the figures open in pyplot's process-wide registry
    korean_fonts    \* whether the host has one of the Korean fonts

lifeVars == <<payload, pc, loop, fs, temp_dir, variables, doc, chart_path, response, errAt,
              written, rcParams, figs, korean_fonts>>
vars == <<numIn, numOut, numPc, csvText, csvPc, csvDf, csvLog, mReq, mOut, mPc, lifeVars>>
mVars == <<mReq, mOut, mPc>>
numVars == <<numIn, numOut, numPc>>
csvVars == <<csvText, csvPc, csvDf, csvLog>>
others == <<numVars, csvVars, mVars>>

(***************************************************************************)
(* Bounds                                                                  *)
(***************************************************************************)
MaxStrLen == 3      \* longest enumerated string handed to safe_float_convert
MaxLines == 3       \* most lines in an enumerated CSV text
MaxFields == 3      \* most fields on one line of an enumerated CSV text
NumRequests == 2    \* requests the service receives

(***************************************************************************)
(* Strings                                                                 *)
(***************************************************************************)
Whitespace == {" ", "\n", "\r", "\t"}
Digits == {"0", "1", "2", "3", "4", "5", "6", "7", "8", "9"}

DigitVal(c) ==
    CASE c = "0" -> 0 [] c = "1" -> 1 [] c = "2" -> 2 [] c = "3" -> 3
      [] c = "4" -> 4 [] c = "5" -> 5 [] c = "6" -> 6 [] c = "7" -> 7
      [] c = "8" -> 8 [] c = "9" -> 9

\* str.replace(ch, ''): every occurrence of ch removed
Remove(s, ch) == SelectSeq(s, LAMBDA c : c # ch)

RECURSIVE LStrip(_)
LStrip(s) == IF s # <<>> /\ Head(s) \in Whitespace THEN LStrip(Tail(s)) ELSE s

RECURSIVE RStrip(_)
RStrip(s) ==
    IF s # <<>> /\ s[Len(s)] \in Whitespace THEN RStrip(SubSeq(s, 1, Len(s) - 1)) ELSE s

\* str.strip()
Strip(s) == RStrip(LStrip(s))

\* All sequences over S of length at most n
RECURSIVE SeqsUpTo(_, _)
SeqsUpTo(S, n) ==
    IF n = 0 THEN {<<>>}
    ELSE LET shorter == SeqsUpTo(S, n - 1)
         IN  shorter \cup {Append(s, c) : s \in shorter, c \in S}

(***************************************************************************)
(* Floats.  A Python float is [k |-> "fin", n, d] (the value n/d in lowest *)
(* terms, d > 0), [k |-> "inf"] (n its sign) or [k |-> "nan"].             *)
(***************************************************************************)
RECURSIVE GCD(_, _)
GCD(a, b) == IF b = 0 THEN a ELSE GCD(b, a % b)

Abs(x) == IF x < 0 THEN -x ELSE x

Fin(n, d) ==
    LET g == GCD(Abs(n), d)
    IN  [k |-> "fin", n |-> n \div g, d |-> d \div g]
NaN == [k |-> "nan", n |-> 0, d |-> 1]
Inf == [k |-> "inf", n |-> 1, d |-> 1]
Zero == Fin(0, 1)

\* float() raising ValueError, and "no value yet", as values of the same shape
ValueError == [k |-> "ValueError", n |-> 0, d |-> 1]
NoFloat == [k |-> "none", n |-> 0, d |-> 1]

IsFinite(x) == x.k = "fin"

RECURSIVE Pow10(_)
Pow10(e) == IF e = 0 THEN 1 ELSE 10 * Pow10(e - 1)

RECURSIVE DigitsVal(_)
DigitsVal(s) == IF s = <<>> THEN 0 ELSE 10 * DigitsVal(SubSeq(s, 1, Len(s) - 1)) + DigitVal(s[Len(s)])

AllDigits(s) == \A i \in 1..Len(s) : s[i] \in Digits

\* The decimal literal  digits [ "." digits ]  |  "." digits  (at least one digit)
IsDecimal(s) ==
    LET dots == {i \in 1..Len(s) : s[i] = "."}
    IN  /\ \A i \in 1..Len(s) : s[i] \in Digits \cup {"."}
        /\ Cardinality(dots) <= 1
        /\ Len(s) > Cardinality(dots)

DecimalVal(s) ==
    LET dots == {i \in 1..Len(s) : s[i] = "."}
        p    == IF dots = {} THEN Len(s) + 1 ELSE CHOOSE i \in dots : TRUE
        frac == Len(s) - p
    IN  IF dots = {} THEN Fin(DigitsVal(s), 1)
        ELSE Fin(DigitsVal(Remove(s, ".")), Pow10(frac))

Neg(x) ==
    IF x.k = "fin" THEN Fin(-x.n, x.d)
    ELSE IF x.k = "inf" THEN [x EXCEPT !.n = -x.n]
    ELSE x

\* The unsigned part of a float literal, over the characters the model
\* enumerates: a decimal literal, "inf" or "nan" (exponents, underscores,
\* upper case and "infinity" need characters outside NumAlphabet).
UnsignedFloat(s) ==
    IF IsDecimal(s) THEN DecimalVal(s)
    ELSE IF s = <<"i", "n", "f">> THEN Inf
    ELSE IF s = <<"n", "a", "n">> THEN NaN
    ELSE ValueError

\* Python's float(str): surrounding whitespace is ignored, then an optional
\* sign and the literal; anything else raises ValueError.
PyFloatOfStr(s) ==
    LET t == Strip(s)
    IN  IF t = <<>> THEN ValueError
        ELSE IF Head(t) = "-" THEN Neg(UnsignedFloat(Tail(t)))
        ELSE IF Head(t) = "+" THEN UnsignedFloat(Tail(t))
        ELSE UnsignedFloat(t)


(***************************************************************************)
(* Float arithmetic.  Finite values are exact rationals: the model rounds  *)
(* the exact quotient, where Python rounds the nearest double.             *)
(***************************************************************************)
Sign(n) == IF n < 0 THEN -1 ELSE 1

\* x != 0
NonZero(x) == ~(x.k = "fin" /\ x.n = 0)

\* a / b for b != 0
Div(a, b) ==
    IF a.k = "nan" \/ b.k = "nan" THEN NaN
    ELSE IF a.k = "inf" THEN (IF b.k = "inf" THEN NaN ELSE [Inf EXCEPT !.n = a.n * Sign(b.n)])
    ELSE IF b.k = "inf" THEN Zero
    ELSE Fin(a.n * b.d * Sign(b.n), a.d * Abs(b.n))

\* x * 100
Times100(x) ==
    IF x.k = "fin" THEN Fin(x.n * 100, x.d)
    ELSE x

\* p / q (q > 0) rounded to the nearest integer, ties to even
RoundHalfEven(p, q) ==
    LET f == p \div q
        r == p - f * q
    IN  IF 2 * r < q THEN f
        ELSE IF 2 * r > q THEN f + 1
        ELSE IF f % 2 = 0 THEN f ELSE f + 1

\* round(x, ndigits): nan and inf round to themselves
Round(x, ndigits) ==
    IF x.k = "fin" THEN Fin(RoundHalfEven(x.n * Pow10(ndigits), x.d), Pow10(ndigits)) ELSE x

\* a > b; every comparison with nan is False
Gt(a, b) ==
    IF a.k = "nan" \/ b.k = "nan" THEN FALSE
    ELSE IF a.k = "inf" THEN a.n > 0 /\ ~(b.k = "inf" /\ b.n > 0)
    ELSE IF b.k = "inf" THEN b.n < 0
    ELSE a.n * b.d > b.n * a.d

\* int(x) of a float: truncation toward zero; nan raises ValueError, inf OverflowError
IntOfFloatCeiling(x) ==
    IF x.k = "nan" THEN [ok |-> FALSE, v |-> 0, err |-> "ValueError"]
    ELSE IF x.k = "inf" THEN [ok |-> FALSE, v |-> 0, err |-> "OverflowError"]
    ELSE [ok |-> TRUE, v |-> -((-x.n) \div x.d), err |-> "none"]

IntOfFloat(x) ==
    IF x.k = "nan" THEN [ok |-> FALSE, v |-> 0, err |-> "ValueError"]
    ELSE IF x.k = "inf" THEN [ok |-> FALSE, v |-> 0, err |-> "OverflowError"]
    ELSE [ok |-> TRUE, v |-> Sign(x.n) * (Abs(x.n) \div x.d), err |-> "none"]

\* int(s) of a str: surrounding whitespace, an optional sign, decimal digits
IntOfStr(s) ==
    LET t == Strip(s)
        u == IF t # <<>> /\ Head(t) \in {"-", "+"} THEN Tail(t) ELSE t
    IN  IF u # <<>> /\ AllDigits(u)
        THEN [ok |-> TRUE, v |-> (IF Head(t) = "-" THEN -1 ELSE 1) * DigitsVal(u), err |-> "none"]
        ELSE [ok |-> FALSE, v |-> 0, err |-> "ValueError"]

(***************************************************************************)
(* Values.  What safe_float_convert can be handed:                         *)
(*   [t |-> "str", s]        a Python str                                  *)
(*   [t |-> "int", v]        a Python int                                  *)
(*   [t |-> "float", v]      a Python float, or numpy.float64 (a subclass  *)
(*                           of float)                                     *)
(*   [t |-> "np.int64", v]   numpy.int64: neither int, float nor str       *)
(*   [t |-> "NoneType"]      anything else                                 *)
(***************************************************************************)
Str(s) == [t |-> "str", s |-> s]
PyInt(v) == [t |-> "int", v |-> v]
PyFloat(v) == [t |-> "float", v |-> v]
NpInt64(v) == [t |-> "np.int64", v |-> v]
None == [t |-> "NoneType"]

\* safe_float_convert, the str branch with the float() call and its ValueError handler
SafeFloatOfStr(s) ==
    LET cleaned_value == Strip(Remove(Remove(Remove(s, ","), "\""), "'"))
    IN  IF cleaned_value = <<>> \/ cleaned_value = <<"0", ".", "0", "0", "0">> THEN Zero
        ELSE LET f == PyFloatOfStr(cleaned_value)
             IN  IF f = ValueError THEN Zero ELSE f

safe_float_convert(value) ==
    IF value.t = "int" THEN Fin(value.v, 1)
    ELSE IF value.t = "float" THEN value.v
    ELSE IF value.t = "str" THEN SafeFloatOfStr(value.s)
    ELSE Zero

(***************************************************************************)
(* SpecNum: safe_float_convert applied to one value                        *)
(***************************************************************************)
NumAlphabet == {"0", "1", ".", ",", " ", "\"", "'", "-", "a", "n", "i", "f"}

\* The strings the specification names
NamedStrings ==
    { <<"1", ",", "2", "3", "4", ".", "0", "0">>,
      <<>>,
      <<"0", ".", "0", "0", "0">>,
      <<"a", "b", "c">> }

NumInputs ==
    {Str(s) : s \in SeqsUpTo(NumAlphabet, MaxStrLen) \cup NamedStrings}
      \cup {PyInt(v) : v \in -1..MaxStrLen}
      \cup {PyFloat(v) : v \in {Zero, Fin(1, 2), NaN, Inf}}
      \cup {NpInt64(v) : v \in 0..MaxStrLen}
      \cup {None}

NumIdle == numIn = None /\ numOut = NoFloat /\ numPc = "off"

Convert ==
    /\ numPc = "call"
    /\ numOut' = safe_float_convert(numIn)
    /\ numPc' = "ret"
    /\ UNCHANGED <<numIn, csvVars, mVars, lifeVars>>

NumNext == Convert

(***************************************************************************)
(* DataFrames.  columns: the column labels (texts); rows: one sequence of  *)
(* cell values per row, aligned with columns; index: the row labels (the   *)
(* leading fields pandas takes as an implicit index; <<>> for a default    *)
(* RangeIndex entry).                                                      *)
(***************************************************************************)
DataFrame(columns, rows, index) == [columns |-> columns, rows |-> rows, index |-> index]

\* pd.DataFrame()
EmptyDataFrame == DataFrame(<<>>, <<>>, <<>>)

\* DataFrame.empty: some axis has length 0
IsEmptyDf(df) == Len(df.columns) = 0 \/ Len(df.rows) = 0

Ok(df) == [ok |-> TRUE, df |-> df, err |-> "none"]
Raised(e) == [ok |-> FALSE, df |-> EmptyDataFrame, err |-> e]

\* s.split(sep) for a set of one-character separators: the segments between them
RECURSIVE SplitOn(_, _)
SplitOn(s, seps) ==
    LET hits == {i \in 1..Len(s) : s[i] \in seps}
    IN  IF hits = {} THEN <<s>>
        ELSE LET i == CHOOSE j \in hits : \A h \in hits : j <= h
             IN  <<SubSeq(s, 1, i - 1)>> \o SplitOn(SubSeq(s, i + 1, Len(s)), seps)

\* row + [''] * (n - len(row))
RECURSIVE PadTo(_, _)
PadTo(row, n) == IF Len(row) >= n THEN row ELSE PadTo(Append(row, <<>>), n)

Max(a, b) == IF a >= b THEN a ELSE b

(***************************************************************************)
(* pandas.read_csv with its defaults (C engine, header=0, index_col=None,  *)
(* skip_blank_lines, on_bad_lines='error'), over texts without quote       *)
(* characters.                                                             *)
(***************************************************************************)
\* The fields of each line
FieldsOf(lines) == [i \in 1..Len(lines) |-> SplitOn(lines[i], {","})]

\* The tokenizer's lines: "\n", "\r" and "\r\n" end a line, empty lines are skipped
PandasLines(text) == FieldsOf(SelectSeq(SplitOn(text, {"\n", "\r"}), LAMBDA l : l # <<>>))

\* tokenizer end_line: the first data line may be wider than the header; a
\* narrower line is padded to the width before it; a later line wider than
\* the line before it is the error "Expected n fields in line m, saw k".
RECURSIVE TooManyFields(_, _, _)
TooManyFields(lines, i, width) ==
    IF i > Len(lines) THEN FALSE
    ELSE IF i > 2 /\ Len(lines[i]) > width THEN TRUE
    ELSE TooManyFields(lines, i + 1, Max(width, Len(lines[i])))

\* The width every data line is padded to: the wider of the header and the first data line
DataWidth(lines) == IF Len(lines) < 2 THEN Len(lines[1]) ELSE Max(Len(lines[1]), Len(lines[2]))

\* Default NA markers among the cells the model enumerates
IsNA(cell) == cell = <<>> \/ cell = <<"n", "a", "n">>

IsIntLiteral(cell) == cell # <<>> /\ AllDigits(cell)
IsFloatLiteral(cell) == IsDecimal(cell) \/ cell = <<"i", "n", "f">>

\* Column type inference: int64 when every cell is an integer literal,
\* float64 when every cell is a number or missing, object otherwise.
Dtype(cells) ==
    IF \A i \in 1..Len(cells) : IsIntLiteral(cells[i]) THEN "int64"
    ELSE IF \A i \in 1..Len(cells) : IsNA(cells[i]) \/ IsFloatLiteral(cells[i]) THEN "float64"
    ELSE "object"

\* The value a cell holds in a column of the given dtype.  An int64 column
\* holds numpy.int64; a float64 column numpy.float64 (NaN where missing);
\* an object column str, and float NaN where missing.
CellValue(cell, dtype) ==
    IF dtype = "int64" THEN NpInt64(DigitsVal(cell))
    ELSE IF IsNA(cell) THEN PyFloat(NaN)
    ELSE IF dtype = "float64" THEN PyFloat(UnsignedFloat(cell))
    ELSE Str(cell)

\* The frame of the padded data lines: the first lead fields of every line
\* are its index label, the others its cells, typed column by column
TypedFrame(header, data, lead) ==
    DataFrame(header,
              [i \in 1..Len(data) |->
                  [j \in 1..Len(header) |->
                      CellValue(data[i][lead + j], Dtype([k \in 1..Len(data) |-> data[k][lead + j]]))]],
              [i \in 1..Len(data) |-> SubSeq(data[i], 1, lead)])

\* The data lines, each padded to the width
PaddedData(lines, width) == [i \in 1..(Len(lines) - 1) |-> PadTo(lines[i + 1], width)]

\* No line at all is EmptyDataError.  Data wider than the header by k makes
\* the first k fields of every line the index (parsers.pyx _get_header:
\* leading_cols = field_count - passed_count).
ParseLines(lines) ==
    IF Len(lines) = 0 THEN Raised("EmptyDataError")
    ELSE IF TooManyFields(lines, 2, Len(lines[1])) THEN Raised("ParserError")
    ELSE Ok(TypedFrame(lines[1], PaddedData(lines, DataWidth(lines)),
                       DataWidth(lines) - Len(lines[1])))

read_csv(text) == ParseLines(PandasLines(text))

(***************************************************************************)
(* The manual fallback of csv_string_to_dataframe                          *)
(***************************************************************************)
\* csv.reader on one line (no quotes): a "\r" or "\n" ends the record, and any
\* other character after it is the error "new-line character seen in
\* unquoted field"; an empty record is the empty list.
CsvReaderRaises(line) ==
    \E i \in 1..Len(line) : line[i] = "\r" /\ \E j \in (i + 1)..Len(line) : line[j] # "\r"

CsvReaderRow(line) ==
    LET body == Remove(line, "\r")
    IN  IF body = <<>> THEN <<>> ELSE SplitOn(body, {","})

\* lines 84-90: pad a short row with '', cut a long row to the header's width
NormalizeRow(row, n) == IF Len(row) < n THEN PadTo(row, n) ELSE SubSeq(row, 1, n)

\* lines 80-92: the frame of the normalized rows under the headers
ManualFrame(headers, rows) ==
    DataFrame(headers,
              [i \in 1..Len(rows) |->
                  [j \in 1..Len(headers) |-> Str(NormalizeRow(rows[i], Len(headers))[j])]],
              [i \in 1..Len(rows) |-> <<>>])

\* lines 72-78: data = list(csv.reader(lines)); headers = data[0]; rows = data[1:]
ReadData(data) == ManualFrame(data[1], Tail(data))

\* lines 69-78 on the lines of the text
ManualLines(lines) ==
    IF \E i \in 1..Len(lines) : CsvReaderRaises(lines[i]) THEN Raised("csv.Error")
    ELSE Ok(ReadData([i \in 1..Len(lines) |-> CsvReaderRow(lines[i])]))

ManualParse(csv_string) == ManualLines(SplitOn(Strip(csv_string), {"\n"}))

\* lines 52-53: the guard on empty and whitespace-only text
IsBlank(csv_string) == Strip(csv_string) = <<>>

\* lines 55-62: the primary parse of the stripped text
PrimaryParse(csv_string) == read_csv(Strip(csv_string))

\* The fallback without its except clause: the second failure escapes
FallbackResultUncaught(r) == r

\* lines 94-96: a failing fallback gives pd.DataFrame()
FallbackResult(r) == IF r.ok THEN r ELSE Ok(EmptyDataFrame)

\* lines 55-96: the primary result, or the fallback's when the primary raised
PrimaryOrFallback(csv_string, primary) ==
    IF primary.ok THEN primary.df ELSE FallbackResult(ManualParse(csv_string)).df

\* csv_string_to_dataframe as a whole
csv_string_to_dataframe(csv_string) ==
    IF IsBlank(csv_string) THEN EmptyDataFrame
    ELSE PrimaryOrFallback(csv_string, PrimaryParse(csv_string))

(***************************************************************************)
(* calculate_variables                                                     *)
(***************************************************************************)
GUBUN == <<"GUBUN">>
SEBU == <<"SEBU">>
TOTAL == <<"TOTAL">>
HAPGYE == <<"HAPGYE">>
GRANDTOTAL == <<"GRANDTOTAL">>
REPORT == <<"REPORT">>
BASE == <<"BASE">>
PREV == <<"PREV">>
Scope1 == <<"S1">>
Scope2 == <<"S2">>
Scope3 == <<"S3">>
NA == <<"N", "/", "A">>

\* df[name] exists; otherwise the lookup raises KeyError
HasCol(df, name) == \E j \in 1..Len(df.columns) : df.columns[j] = name

ColIdx(df, name) ==
    CHOOSE j \in 1..Len(df.columns) :
        df.columns[j] = name /\ \A h \in 1..(j - 1) : df.columns[h] # name

\* A lookup that trims the cell before comparing
LabelEqTrimmed(value, label) == value.t = "str" /\ Strip(value.s) = label

\* One element of  df[col] == label : the cell is that very string (no
\* trimming, no case folding); NaN and numbers never equal a label
LabelEq(value, label) == value.t = "str" /\ value.s = label

\* Boolean indexing df[mask]: the positions of the rows the mask keeps, in table order
RowsWhere(df, mask) == SelectSeq([i \in 1..Len(df.rows) |-> i], LAMBDA i : i \in mask)

\* row[name] of df.iloc[i]: the cell as the frame holds it
At(df, i, name) == df.rows[i][ColIdx(df, name)]

\* Series.apply hands each element over as a Python object: an int64
\* column's elements arrive as int
Applied(value) == IF value.t = "np.int64" THEN PyInt(value.v) ELSE value

\* round((a / b * 100) if b != 0 else 0, 2)
Percent(a, b) == Round(IF NonZero(b) THEN Times100(Div(a, b)) ELSE Zero, 2)

\* round((a / b) if b != 0 else 0, ndigits)
Intensity(a, b, ndigits) == Round(IF NonZero(b) THEN Div(a, b) ELSE Zero, ndigits)

Err(e) == [ok |-> FALSE, err |-> e, v |-> [none |-> TRUE]]
Bundle(v) == [ok |-> TRUE, err |-> "none", v |-> v]

\* lines 183-201: the largest Scope 1 / Scope 2 source
\* idxmax skips NaN and takes the first maximum; with nothing but NaN the
\* lookup of the row fails
RECURSIVE ArgMaxFirst(_, _, _)
ArgMaxFirst(vals, i, best) ==
    IF i > Len(vals) THEN best
    ELSE IF vals[i].k = "nan" THEN ArgMaxFirst(vals, i + 1, best)
    ELSE IF best = 0 \/ Gt(vals[i], vals[best]) THEN ArgMaxFirst(vals, i + 1, i)
    ELSE ArgMaxFirst(vals, i + 1, best)

LargestSource(df, total) ==
    LET picked == RowsWhere(df, {i \in 1..Len(df.rows) :
                      /\ (LabelEq(At(df, i, GUBUN), Scope1) \/ LabelEq(At(df, i, GUBUN), Scope2))
                      /\ ~LabelEq(At(df, i, SEBU), HAPGYE)})
        vals   == [i \in 1..Len(picked) |-> safe_float_convert(Applied(At(df, picked[i], REPORT)))]
        best   == ArgMaxFirst(vals, 1, 0)
    IN  IF Len(picked) = 0
        THEN [ok |-> TRUE, name |-> Str(NA), amount |-> Zero, rate |-> Zero]
        ELSE IF best = 0
        THEN [ok |-> FALSE, name |-> Str(NA), amount |-> Zero, rate |-> Zero]
        ELSE [ok |-> TRUE, name |-> At(df, picked[best], SEBU), amount |-> vals[best],
              rate |-> Percent(vals[best], total)]

\* lines 223: max(items, key=value): a later item replaces the best only when greater
RECURSIVE MaxFirst(_, _, _)
MaxFirst(vals, i, best) ==
    IF i > Len(vals) THEN best
    ELSE IF Gt(vals[i], vals[best]) THEN MaxFirst(vals, i + 1, i)
    ELSE MaxFirst(vals, i + 1, best)

\* lines 203-240: the largest workplace of table 5
LargestWorkplace(df, total) ==
    LET none   == [ok |-> TRUE, name |-> NA, amount |-> Zero, rate |-> Zero]
        found  == RowsWhere(df, {i \in 1..Len(df.rows) : LabelEq(At(df, i, GUBUN), GRANDTOTAL)})
        cols   == SelectSeq(df.columns, LAMBDA c : c \notin {GUBUN, SEBU, HAPGYE})
        vals   == [j \in 1..Len(cols) |-> safe_float_convert(At(df, found[1], cols[j]))]
        best   == MaxFirst(vals, 2, 1)
    IN  IF IsEmptyDf(df) THEN none
        ELSE IF ~HasCol(df, GUBUN) THEN [none EXCEPT !.ok = FALSE]
        ELSE IF Len(found) = 0 \/ Len(cols) = 0 THEN none
        ELSE [ok |-> TRUE, name |-> cols[best], amount |-> vals[best],
              rate |-> Percent(vals[best], total)]

\* A scope's subtotal: the first row (category = scope, subcategory = '합계'), else 0
ScopeEmission(df, scope) ==
    LET found == RowsWhere(df, {i \in 1..Len(df.rows) :
                     LabelEq(At(df, i, GUBUN), scope) /\ LabelEq(At(df, i, SEBU), HAPGYE)})
    IN  IF Len(found) = 0 THEN Zero ELSE safe_float_convert(At(df, found[1], REPORT))

\* lines 143-146: the rows whose category cell is '총합'
TotalRows(df) == RowsWhere(df, {i \in 1..Len(df.rows) : LabelEq(At(df, i, GUBUN), TOTAL)})

\* The validations with the total-row lookup made first
Table1CheckTotalFirst(df) ==
    IF ~HasCol(df, GUBUN) THEN "KeyError"
    ELSE IF Len(TotalRows(df)) = 0 THEN "ValueError: no total row"
    ELSE IF IsEmptyDf(df) THEN "ValueError: Table1 empty"
    ELSE "ok"

\* lines 140-146: the two validations of the primary table, in order
Table1Check(df) ==
    IF IsEmptyDf(df) THEN "ValueError: Table1 empty"
    ELSE IF ~HasCol(df, GUBUN) THEN "KeyError"
    ELSE IF Len(TotalRows(df)) = 0 THEN "ValueError: no total row"
    ELSE "ok"

\* lines 155-291: the derived values and the returned dict
Derived(workplace_num, report_year, base_year, total_emission_report_year, total_emission_base_year, total_emission_previous_year, scope1, scope2, scope3, source, workplace, revenue_report_year, num_employee_report_year, revenue_previous_year, num_employee_previous_year) ==
    IF ~source.ok THEN Err("idxmax: all NaN")
    ELSE IF ~workplace.ok THEN Err("KeyError")
    ELSE IF ~num_employee_report_year.ok THEN Err(num_employee_report_year.err)
    ELSE IF ~num_employee_previous_year.ok THEN Err(num_employee_previous_year.err)
    ELSE Bundle([
        workplace_num |-> workplace_num,
        report_year |-> report_year,
        base_year |-> base_year,
        previous_year |-> report_year - 1,
        total_emission_report_year |-> total_emission_report_year,
        total_emission_base_year |-> total_emission_base_year,
        total_emission_previous_year |-> total_emission_previous_year,
        total_emission_report_year_vs_base_year |->
            Percent(total_emission_report_year, total_emission_base_year),
        total_emission_report_year_vs_previous_year |->
            Percent(total_emission_report_year, total_emission_previous_year),
        scope1_emission_report_year |-> scope1,
        scope1_emission_rate_report_year |-> Percent(scope1, total_emission_report_year),
        scope2_emission_report_year |-> scope2,
        scope2_emission_rate_report_year |-> Percent(scope2, total_emission_report_year),
        scope3_emission_report_year |-> scope3,
        scope3_emission_rate_report_year |-> Percent(scope3, total_emission_report_year),
        name_largest_emission_source_report_year |-> source.name,
        amount_largest_emission_source_report_year |-> source.amount,
        rate_largest_emission_source_report_year |-> source.rate,
        name_largest_emission_workplace_report_year |-> workplace.name,
        amount_largest_emission_workplace_report_year |-> workplace.amount,
        rate_largest_emission_workplace_report_year |-> workplace.rate,
        revenue_report_year |-> revenue_report_year,
        num_employee_report_year |-> num_employee_report_year.v,
        revenue_previous_year |-> revenue_previous_year,
        num_employee_previous_year |-> num_employee_previous_year.v,
        emission_vs_revenue_report_year |->
            Intensity(total_emission_report_year, revenue_report_year, 4),
        emission_vs_employee_report_year |->
            Intensity(total_emission_report_year, Fin(num_employee_report_year.v, 1), 2),
        emission_vs_revenue_previous_year |->
            Intensity(total_emission_previous_year, revenue_previous_year, 4),
        emission_vs_employee_previous_year |->
            Intensity(total_emission_previous_year, Fin(num_employee_previous_year.v, 1), 2) ])

\* lines 164-259 given the total row's report-year emission
FromTotal(request_data, report_year, base_year, table3_df, table1_df, table5_df, total_row, total_emission_report_year) ==
    Derived(IF IsEmptyDf(table3_df) THEN 0 ELSE Len(table3_df.rows),
            report_year, base_year,
            total_emission_report_year,
            safe_float_convert(At(table1_df, total_row, BASE)),
            safe_float_convert(At(table1_df, total_row, PREV)),
            ScopeEmission(table1_df, Scope1),
            ScopeEmission(table1_df, Scope2),
            ScopeEmission(table1_df, Scope3),
            LargestSource(table1_df, total_emission_report_year),
            LargestWorkplace(table5_df, total_emission_report_year),
            safe_float_convert(Str(request_data.report_sales)),
            IntOfFloat(safe_float_convert(Str(request_data.report_employees))),
            safe_float_convert(Str(request_data.report_sales_last_year)),
            IntOfFloat(safe_float_convert(Str(request_data.report_employees_last_year))))

\* lines 128-298 given the parsed years and tables
FromFrames(request_data, report_year, base_year, table3_df, table1_df, table5_df) ==
    IF ~report_year.ok \/ ~base_year.ok THEN Err("ValueError: int()")
    ELSE IF Table1Check(table1_df) # "ok" THEN Err(Table1Check(table1_df))
    ELSE IF \E c \in {REPORT, BASE, PREV} : ~HasCol(table1_df, c) THEN Err("KeyError")
    ELSE IF ~HasCol(table1_df, SEBU) THEN Err("KeyError")
    ELSE FromTotal(request_data, report_year.v, base_year.v, table3_df, table1_df, table5_df,
                   TotalRows(table1_df)[1],
                   safe_float_convert(At(table1_df, TotalRows(table1_df)[1], REPORT)))

calculate_variables(request_data) ==
    FromFrames(request_data,
               IntOfStr(request_data.selected_report_year),
               IntOfStr(request_data.base_year),
               csv_string_to_dataframe(request_data.word_table3_csv),
               csv_string_to_dataframe(request_data.word_table1_csv),
               csv_string_to_dataframe(request_data.word_table5_csv))

(***************************************************************************)
(* SpecCsv: csv_string_to_dataframe applied to one text                    *)
(***************************************************************************)
\* The field at line i, position j, as one token ("c23"); line 1 is the header
Cell(i, j) == <<"c" \o ToString(i) \o ToString(j)>>

RECURSIVE JoinFields(_, _)
JoinFields(i, n) == IF n = 1 THEN Cell(i, 1) ELSE JoinFields(i, n - 1) \o <<",">> \o Cell(i, n)

\* Lines 1..n of the given widths, each followed by its line ending but the last
RECURSIVE JoinLines(_, _, _)
JoinLines(widths, seps, n) ==
    IF n = 1 THEN JoinFields(1, widths[1])
    ELSE JoinLines(widths, seps, n - 1) \o seps[n - 1] \o JoinFields(n, widths[n])

LineEndings == {<<"\n">>, <<"\r">>, <<"\r", "\n">>}

BlankTexts == {<<>>, <<" ">>, <<"\n">>, <<" ", "\n", "\t">>}

CsvTexts ==
    BlankTexts \cup
    UNION { { pre \o JoinLines(widths, seps, nl) \o post :
                widths \in [1..nl -> 1..MaxFields],
                seps \in [1..(nl - 1) -> LineEndings],
                pre \in {<<>>, <<" ">>},
                post \in {<<>>, <<"\n">>} } : nl \in 1..MaxLines }

NoLog == [primaryRaised |-> FALSE, fallbackEntered |-> FALSE, fallbackRaised |-> FALSE]

CsvIdle == csvText = <<>> /\ csvPc = "off" /\ csvDf = EmptyDataFrame /\ csvLog = NoLog

\* lines 52-53
CsvGuard ==
    /\ csvPc = "call"
    /\ csvPc' = IF IsBlank(csvText) THEN "ret" ELSE "primary"
    /\ csvDf' = EmptyDataFrame
    /\ UNCHANGED <<csvText, csvLog, numVars, mVars, lifeVars>>

\* lines 55-66: return the parsed frame, or enter the except block
CsvPrimary ==
    /\ csvPc = "primary"
    /\ LET r == PrimaryParse(csvText)
       IN  /\ csvPc' = IF r.ok THEN "ret" ELSE "fallback"
           /\ csvDf' = r.df
           /\ csvLog' = [csvLog EXCEPT !.primaryRaised = ~r.ok]
    /\ UNCHANGED <<csvText, numVars, mVars, lifeVars>>

\* lines 69-96: the manual parse inside its own try/except
CsvFallback ==
    /\ csvPc = "fallback"
    /\ LET r == FallbackResult(ManualParse(csvText))
       IN  /\ csvPc' = IF r.ok THEN "ret" ELSE "raised"
           /\ csvDf' = r.df
           /\ csvLog' = [csvLog EXCEPT !.fallbackEntered = TRUE,
                                       !.fallbackRaised = ~ManualParse(csvText).ok]
    /\ UNCHANGED <<csvText, numVars, mVars, lifeVars>>

CsvNext == CsvGuard \/ CsvPrimary \/ CsvFallback

(***************************************************************************)
(* SpecMetrics: calculate_variables applied to one request payload         *)
(***************************************************************************)
\* sep.join(parts)
RECURSIVE Join(_, _)
Join(parts, sep) ==
    IF Len(parts) = 0 THEN <<>>
    ELSE IF Len(parts) = 1 THEN parts[1]
    ELSE parts[1] \o sep \o Join(Tail(parts), sep)

\* The CSV text of a table given as rows of cells
CsvOf(rows) == Join([i \in 1..Len(rows) |-> Join(rows[i], <<",">>)], <<"\n">>)

Table1Header == <<GUBUN, SEBU, REPORT, BASE, PREV>>

\* Cells of the emission columns
Amt1000 == <<"1", "0", "0", "0">>
Amt800 == <<"8", "0", "0">>
Amt900 == <<"9", "0", "0">>
Amt600 == <<"6", "0", "0">>
Amt0 == <<"0">>
Amt800p5 == <<"8", "0", "0", ".", "5">>

\* (report, base, previous) of the first data row
TotalAmounts ==
    { <<Amt1000, Amt800, Amt900>>,
      <<Amt1000, Amt0, Amt900>>,
      <<Amt0, Amt800, Amt0>>,
      <<Amt1000, Amt800p5, <<>>>>,
      <<Amt900, <<"i", "n", "f">>, Amt800p5>> }

\* Category cells of the first data row: the label, the label with
\* whitespace around it, and a label it is a prefix of
TotalLabels == {TOTAL, <<" ", "TOTAL">>, <<"TOTAL", " ">>, GRANDTOTAL}

\* The rows after the first
MoreRows ==
    { <<>>,
      << <<Scope1, HAPGYE, Amt600, Amt0, Amt0>> >>,
      << <<Scope1, HAPGYE, <<"6", "0", "0", ".", "5">>, Amt0, Amt0>> >>,
      << <<<<" ", "S1">>, HAPGYE, <<"6", "0", "0", ".", "5">>, Amt0, Amt0>> >>,
      << <<Scope1, <<"HAPGYE", " ">>, <<"6", "0", "0", ".", "5">>, Amt0, Amt0>>, <<Scope2, <<"src">>, Amt900, Amt0, Amt0>> >>,
      << <<Scope2, <<"src">>, <<>>, Amt0, Amt0>> >>,
      << <<Scope1, HAPGYE, Amt1000, Amt0, Amt0>>, <<Scope1, <<"a">>, Amt900, Amt0, Amt0>>,
         <<Scope2, <<"b">>, Amt900, Amt0, Amt0>>, <<Scope3, <<"c">>, Amt1000, Amt0, Amt0>> >> }

Table1Texts ==
    { <<>>, CsvOf(<<Table1Header>>),
      CsvOf(<<<<<<"GUBUN", " ">>, SEBU, REPORT, BASE, PREV>>, <<TOTAL, <<>>, Amt1000, Amt800, Amt900>>>>) }
    \cup { CsvOf(<<Table1Header, <<label, <<>>>> \o amounts>> \o more) :
             label \in TotalLabels, amounts \in TotalAmounts, more \in MoreRows }

Table3Texts == { <<>>, CsvOf(<<<<<<"site">>>>, <<<<"a">>>>, <<<<"b">>>>>>) }

Table5Texts ==
    { <<>>,
      CsvOf(<<<<GUBUN, HAPGYE, <<"siteA">>, <<"siteB">>>>,
              <<GRANDTOTAL, Amt900, Amt800p5, Amt600>>>>),
      CsvOf(<<<<GUBUN, <<"HAPGYE", " ">>, <<"siteA">>>>,
              <<GRANDTOTAL, Amt900, Amt800>>>>),
      CsvOf(<<<<<<"site">>, <<"siteA">>>>, <<GRANDTOTAL, Amt900>>>>),
      CsvOf(<<<<GUBUN, SEBU, <<"siteA">>, <<"siteB">>>>,
              <<GRANDTOTAL, <<>>, Amt800p5, Amt900>>>>),
      CsvOf(<<<<GUBUN, <<"siteA">>, <<"siteB">>, <<"siteC">>>>,
              <<Scope1, Amt1000, Amt0, Amt0>>,
              <<GRANDTOTAL, Amt600 \o <<".", "5">>, Amt800p5, Amt800p5>>>>) }

Years == { <<"2", "0", "2", "3">>, <<"a">> }
Sales == { <<"0">>, <<"5", "0", "0">> }
Employees == { <<"0">>, <<"1", "0">>, <<"n", "a", "n">>, <<"2", ".", "5">> }

Requests ==
    [ selected_report_year : Years,
      base_year : { <<"2", "0", "2", "0">> },
      report_sales : Sales,
      report_employees : Employees,
      report_sales_last_year : { <<"4", "0", "0">> },
      report_employees_last_year : { <<"0", ".", "5">> },
      word_table1_csv : Table1Texts,
      word_table3_csv : Table3Texts,
      word_table5_csv : Table5Texts ]

NoRequest ==
    [ selected_report_year |-> <<>>, base_year |-> <<>>, report_sales |-> <<>>,
      report_employees |-> <<>>, report_sales_last_year |-> <<>>,
      report_employees_last_year |-> <<>>, word_table1_csv |-> <<>>,
      word_table3_csv |-> <<>>, word_table5_csv |-> <<>> ]

MetricsIdle == mReq = NoRequest /\ mPc = "off" /\ mOut = Err("pending")

\* lines 118-298: the bundle is returned, or the exception is re-raised
Calculate ==
    /\ mPc = "call"
    /\ mOut' = calculate_variables(mReq)
    /\ mPc' = IF mOut'.ok THEN "ret" ELSE "raised"
    /\ UNCHANGED <<mReq, numVars, csvVars, lifeVars>>

MetricsNext == Calculate

(***************************************************************************)
(* The payloads of the requests of Spec                                    *)
(***************************************************************************)
ChartHeader == <<<<"scope">>, <<"base">>, <<"prev">>, <<"report">>>>

ChartRow(scope) == <<scope, Amt800, Amt900, Amt1000>>

\* Three scope rows under three year columns
Chart3x3 == CsvOf(<<ChartHeader, ChartRow(Scope1), ChartRow(Scope2), ChartRow(Scope3)>>)

\* Two scope rows only
Chart2Rows == CsvOf(<<ChartHeader, ChartRow(Scope1), ChartRow(Scope2)>>)

\* Two year columns only
Chart2Cols ==
    CsvOf(<<SubSeq(ChartHeader, 1, 3), SubSeq(ChartRow(Scope1), 1, 3),
            SubSeq(ChartRow(Scope2), 1, 3), SubSeq(ChartRow(Scope3), 1, 3)>>)

Table1Valid ==
    CsvOf(<<Table1Header,
            <<TOTAL, <<>>, Amt800p5, Amt800p5, Amt800p5>>,
            <<Scope1, HAPGYE, Amt800p5, Amt0, Amt0>>>>)

\* A category cell ' 총합' and no cell '총합'
Table1NoTotal ==
    CsvOf(<<Table1Header,
            <<Scope1, HAPGYE, Amt800p5, Amt0, Amt0>>,
            <<<<" ", "TOTAL">>, <<>>, Amt800p5, Amt800p5, Amt800p5>>>>)

\* A data line one field wider than its header
Table3Wide == CsvOf(<<<<<<"site">>>>, <<<<"a">>, <<"b">>>>>>)

ValidPayload ==
    [ selected_report_year |-> <<"2", "0", "2", "3">>,
      base_year |-> <<"2", "0", "2", "0">>,
      report_sales |-> <<"5", "0", "0">>,
      report_employees |-> <<"1", "0">>,
      report_sales_last_year |-> <<"4", "0", "0">>,
      report_employees_last_year |-> <<"8">>,
      word_table1_csv |-> Table1Valid,
      word_table2_csv |-> <<>>,
      word_table3_csv |-> CsvOf(<<<<<<"site">>>>, <<<<"a">>>>>>),
      word_table4_csv |-> <<>>,
      word_table5_csv |-> <<>>,
      word_table6_csv |-> <<>>,
      word_chart1_csv |-> Chart3x3 ]

Payloads ==
    << ValidPayload,
      [ValidPayload EXCEPT !.word_table1_csv = <<" ", "\n">>],
      [ValidPayload EXCEPT !.word_table1_csv = CsvOf(<<Table1Header>>)],
      [ValidPayload EXCEPT !.word_table1_csv = Table1NoTotal],
      [ValidPayload EXCEPT !.word_chart1_csv = Chart2Rows],
      [ValidPayload EXCEPT !.word_chart1_csv = Chart2Cols],
      [ValidPayload EXCEPT !.word_chart1_csv = <<>>, !.word_table3_csv = Table3Wide] >>

\* The ReportRequest of request r: payload[r] is its position in Payloads
request(r) == Payloads[payload[r]]

(***************************************************************************)
(* Spec: generate_report.  The handler is a coroutine without an await, so *)
(* the event loop runs one handler from its first line to its return or    *)
(* raise before it runs another (loop names the request whose handler is   *)
(* running); the file of a FileResponse is sent by the server afterwards.  *)
(***************************************************************************)
Reqs == 1..NumRequests
DirNames == 1..NumRequests          \* the names mkdtemp can return

NoDir == [owner |-> 0, files |-> {}]

\* An except block that leaves the directory in place
rmtree_skipped(files, name) == files

\* shutil.rmtree(temp_dir, ignore_errors=True): the directory and its files are gone
rmtree(files, name) == [files EXCEPT ![name] = NoDir]

\* lines 592-595: the cleanup of the except block
ExceptCleanup(files, name) == IF name # 0 /\ files[name].owner # 0 THEN rmtree(files, name) ELSE files

\* lines 321-323: table.cell(i + 1, j) with i the row's index label: a
\* label taken from the text (an implicit index) is a str, and i + 1 raises
\* TypeError
IndexRaises(df) == ~IsEmptyDf(df) /\ \E i \in 1..Len(df.index) : df.index[i] # <<>>

\* lines 300-331 on the frame of the table's text
AddTableRaises(csv_string) == IndexRaises(csv_string_to_dataframe(csv_string))

\* lines 497-498: the table rendered before the chart
RenderHeadRaises(request_data) == AddTableRaises(request_data.word_table1_csv)

\* lines 529-562: the tables rendered after the chart
RenderRestRaises(request_data) ==
    \E t \in { request_data.word_table2_csv, request_data.word_table3_csv,
               request_data.word_table4_csv, request_data.word_table5_csv,
               request_data.word_table6_csv } : AddTableRaises(t)

\* lines 337-425 of create_emission_chart, up to the savefig call:
\*   "empty"       the early return of line 341
\*   "IndexError"  df.iloc[:, k] with fewer than four columns (lines 344-347)
\*   "drawn"       rcParams written and the figure created, then
\*   "IndexError after subplots"  ..._data[2] with fewer than three rows (373-385)
DrawFrame(df) ==
    IF IsEmptyDf(df) THEN "empty"
    ELSE IF Len(df.columns) < 4 THEN "IndexError"
    ELSE IF Len(df.rows) < 3 THEN "IndexError after subplots"
    ELSE "drawn"

ChartDraw(chart1_csv) == DrawFrame(csv_string_to_dataframe(chart1_csv))

\* The handler of lines 430-432 without its return None: the exception leaves the function
ChartExceptReraises(raised) == IF raised THEN "raise" ELSE "path"

\* lines 428-432: what create_emission_chart hands back
ChartExcept(raised) == IF raised THEN "None" ELSE "path"

\* What the handler keeps of the call: the dict came back, or the exception raised
Outcome(result) == [ok |-> result.ok, err |-> result.err]

NoDoc == [head |-> FALSE, image |-> FALSE, rest |-> FALSE]

LifeIdle ==
    /\ payload = [r \in {} |-> 0] /\ pc = [r \in {} |-> "off"] /\ loop = 0
    /\ fs = [n \in {} |-> NoDir] /\ temp_dir = [r \in {} |-> 0]
    /\ variables = [r \in {} |-> Outcome(Err("pending"))] /\ doc = [r \in {} |-> NoDoc]
    /\ chart_path = [r \in {} |-> "unset"] /\ response = [r \in {} |-> "none"]
    /\ errAt = [r \in {} |-> "none"] /\ written = [r \in {} |-> {}]
    /\ rcParams = "sans-serif" /\ figs = 0 /\ korean_fonts = FALSE

Init ==
    /\ payload \in [Reqs -> 1..Len(Payloads)]
    /\ pc = [r \in Reqs |-> "waiting"]
    /\ loop = 0
    /\ fs = [n \in DirNames |-> NoDir]
    /\ temp_dir = [r \in Reqs |-> 0]
    /\ variables = [r \in Reqs |-> Outcome(Err("pending"))]
    /\ doc = [r \in Reqs |-> NoDoc]
    /\ chart_path = [r \in Reqs |-> "unset"]
    /\ response = [r \in Reqs |-> "none"]
    /\ errAt = [r \in Reqs |-> "none"]
    /\ written = [r \in Reqs |-> {}]
    /\ rcParams = "sans-serif"
    /\ figs = 0
    /\ korean_fonts \in BOOLEAN
    /\ NumIdle /\ CsvIdle /\ MetricsIdle

\* The event loop starts the handler of a request: line 569.  Requests are
\* numbered in the order their handlers start.
Dispatch(r) ==
    /\ pc[r] = "waiting" /\ loop = 0
    /\ \A q \in 1..(r - 1) : pc[q] # "waiting"
    /\ loop' = r
    /\ pc' = [pc EXCEPT ![r] = "mkdtemp"]
    /\ UNCHANGED <<payload, fs, temp_dir, variables, doc, chart_path, response, errAt,
                   written, rcParams, figs, korean_fonts, others>>

\* tempfile.mkdtemp: a name no existing directory has.  Names are
\* interchangeable, so the least free one stands for any fresh name.
FreshName(files) ==
    CHOOSE n \in DirNames : files[n].owner = 0 /\ \A m \in 1..(n - 1) : files[m].owner # 0

\* line 572: a new, empty directory of the request
Mkdtemp(r) ==
    /\ pc[r] = "mkdtemp"
    /\ fs' = [fs EXCEPT ![FreshName(fs)] = [owner |-> r, files |-> {}]]
    /\ temp_dir' = [temp_dir EXCEPT ![r] = FreshName(fs)]
    /\ pc' = [pc EXCEPT ![r] = "calculate_variables"]
    /\ UNCHANGED <<payload, loop, variables, doc, chart_path, response, errAt, written,
                   rcParams, figs, korean_fonts, others>>

\* line 572 raising OSError: temp_dir stays None
MkdtempFails(r) ==
    /\ pc[r] = "mkdtemp"
    /\ pc' = [pc EXCEPT ![r] = "except"]
    /\ errAt' = [errAt EXCEPT ![r] = "mkdtemp"]
    /\ UNCHANGED <<payload, loop, fs, temp_dir, variables, doc, chart_path, response,
                   written, rcParams, figs, korean_fonts, others>>

\* line 575 with the exception of calculate_variables swallowed
CalculateVariablesUnchecked(r) ==
    /\ pc[r] = "calculate_variables"
    /\ variables' = [variables EXCEPT ![r] = Outcome(calculate_variables(request(r)))]
    /\ pc' = [pc EXCEPT ![r] = "render"]
    /\ errAt' = [errAt EXCEPT ![r] = IF variables'[r].ok THEN "none" ELSE "calculate_variables"]
    /\ UNCHANGED <<payload, loop, fs, temp_dir, doc, chart_path, response, written,
                   rcParams, figs, korean_fonts, others>>

\* line 575
CalculateVariables(r) ==
    /\ pc[r] = "calculate_variables"
    /\ variables' = [variables EXCEPT ![r] = Outcome(calculate_variables(request(r)))]
    /\ pc' = [pc EXCEPT ![r] = IF variables'[r].ok THEN "render" ELSE "except"]
    /\ errAt' = [errAt EXCEPT ![r] = IF variables'[r].ok THEN "none" ELSE "calculate_variables"]
    /\ UNCHANGED <<payload, loop, fs, temp_dir, doc, chart_path, response, written,
                   rcParams, figs, korean_fonts, others>>

\* lines 436-498 of create_emission_report: cover, section 1, the primary table
RenderHead(r) ==
    /\ pc[r] = "render"
    /\ IF RenderHeadRaises(request(r))
       THEN /\ pc' = [pc EXCEPT ![r] = "except"]
            /\ errAt' = [errAt EXCEPT ![r] = "add_table_from_dataframe"]
            /\ UNCHANGED doc
       ELSE /\ pc' = [pc EXCEPT ![r] = "chart"]
            /\ doc' = [doc EXCEPT ![r].head = TRUE]
            /\ UNCHANGED errAt
    /\ UNCHANGED <<payload, loop, fs, temp_dir, variables, chart_path, response, written,
                   rcParams, figs, korean_fonts, others>>

\* lines 500-506: create_emission_chart and the picture.  savefig_ok is the
\* file system's answer to savefig; when it fails the file may exist in part.
RenderChart(r) ==
    /\ pc[r] = "chart"
    /\ \E savefig_ok \in BOOLEAN, partial \in BOOLEAN :
          LET drawn   == ChartDraw(request(r).word_chart1_csv)
              reached == drawn \in {"drawn", "IndexError after subplots"}
              saved   == drawn = "drawn" /\ savefig_ok
              onDisk  == saved \/ (drawn = "drawn" /\ partial)
              result  == IF drawn = "empty" THEN "None" ELSE ChartExcept(~saved)
          IN  /\ (drawn # "drawn") => (savefig_ok /\ ~partial)
              /\ saved => ~partial
              /\ rcParams' = IF reached THEN (IF korean_fonts THEN "AppleGothic" ELSE "DejaVu Sans")
                             ELSE rcParams
              /\ figs' = IF reached /\ ~saved THEN figs + 1 ELSE figs
              /\ fs' = IF onDisk
                       THEN [fs EXCEPT ![temp_dir[r]].files = @ \cup {"Chart1.png"}]
                       ELSE fs
              /\ written' = IF onDisk THEN [written EXCEPT ![r] = @ \cup {"Chart1.png"}] ELSE written
              /\ IF result = "raise"
                 THEN /\ pc' = [pc EXCEPT ![r] = "except"]
                      /\ errAt' = [errAt EXCEPT ![r] = "create_emission_chart"]
                      /\ UNCHANGED <<chart_path, doc>>
                 ELSE /\ pc' = [pc EXCEPT ![r] = "rest"]
                      /\ chart_path' = [chart_path EXCEPT ![r] = result]
                      /\ doc' = [doc EXCEPT ![r].image =
                                    result = "path" /\ "Chart1.png" \in fs'[temp_dir[r]].files]
                      /\ UNCHANGED errAt
    /\ UNCHANGED <<payload, loop, temp_dir, variables, response, korean_fonts, others>>

\* lines 508-564: section 2 with tables 2 to 6
RenderRest(r) ==
    /\ pc[r] = "rest"
    /\ IF RenderRestRaises(request(r))
       THEN /\ pc' = [pc EXCEPT ![r] = "except"]
            /\ errAt' = [errAt EXCEPT ![r] = "add_table_from_dataframe"]
            /\ UNCHANGED doc
       ELSE /\ pc' = [pc EXCEPT ![r] = "save"]
            /\ doc' = [doc EXCEPT ![r].rest = TRUE]
            /\ UNCHANGED errAt
    /\ UNCHANGED <<payload, loop, fs, temp_dir, variables, chart_path, response, written,
                   rcParams, figs, korean_fonts, others>>

\* lines 581-583: doc.save writes the file
Save(r) ==
    /\ pc[r] = "save"
    /\ fs' = [fs EXCEPT ![temp_dir[r]].files = @ \cup {"docx"}]
    /\ written' = [written EXCEPT ![r] = @ \cup {"docx"}]
    /\ pc' = [pc EXCEPT ![r] = "respond"]
    /\ UNCHANGED <<payload, loop, temp_dir, variables, doc, chart_path, response, errAt,
                   rcParams, figs, korean_fonts, others>>

\* line 583 raising OSError, with the file created in part or not at all
SaveFails(r) ==
    /\ pc[r] = "save"
    /\ \E partial \in BOOLEAN :
          /\ fs' = IF partial THEN [fs EXCEPT ![temp_dir[r]].files = @ \cup {"docx"}] ELSE fs
          /\ written' = IF partial THEN [written EXCEPT ![r] = @ \cup {"docx"}] ELSE written
    /\ pc' = [pc EXCEPT ![r] = "except"]
    /\ errAt' = [errAt EXCEPT ![r] = "save"]
    /\ UNCHANGED <<payload, loop, temp_dir, variables, doc, chart_path, response,
                   rcParams, figs, korean_fonts, others>>

\* lines 586-590: the handler returns the FileResponse
Respond(r) ==
    /\ pc[r] = "respond"
    /\ response' = [response EXCEPT ![r] = "FileResponse"]
    /\ pc' = [pc EXCEPT ![r] = "sending"]
    /\ loop' = 0
    /\ UNCHANGED <<payload, fs, temp_dir, variables, doc, chart_path, errAt, written,
                   rcParams, figs, korean_fonts, others>>

\* lines 592-596: cleanup, then the HTTPException
Except(r) ==
    /\ pc[r] = "except"
    /\ fs' = ExceptCleanup(fs, temp_dir[r])
    /\ response' = [response EXCEPT ![r] = "HTTPException"]
    /\ pc' = [pc EXCEPT ![r] = "failed"]
    /\ loop' = 0
    /\ UNCHANGED <<payload, temp_dir, variables, doc, chart_path, errAt, written,
                   rcParams, figs, korean_fonts, others>>

\* The server sends the file of the FileResponse; nothing runs after it
SendFile(r) ==
    /\ pc[r] = "sending"
    /\ "docx" \in fs[temp_dir[r]].files
    /\ pc' = [pc EXCEPT ![r] = "sent"]
    /\ UNCHANGED <<payload, loop, fs, temp_dir, variables, doc, chart_path, response, errAt,
                   written, rcParams, figs, korean_fonts, others>>

Next ==
    \E r \in Reqs :
        \/ Dispatch(r) \/ Mkdtemp(r) \/ MkdtempFails(r) \/ CalculateVariables(r)
        \/ RenderHead(r) \/ RenderChart(r) \/ RenderRest(r) \/ Save(r) \/ SaveFails(r)
        \/ Respond(r) \/ Except(r) \/ SendFile(r)

Spec == Init /\ [][Next]_vars

(***************************************************************************)
(* The specifications of the single functions                              *)
(***************************************************************************)
NumInit ==
    /\ numIn \in NumInputs
    /\ numOut = NoFloat
    /\ numPc = "call"
    /\ CsvIdle /\ MetricsIdle /\ LifeIdle

CsvInit ==
    /\ csvText \in CsvTexts
    /\ csvPc = "call"
    /\ csvDf = EmptyDataFrame
    /\ csvLog = NoLog
    /\ NumIdle /\ MetricsIdle /\ LifeIdle

MetricsInit ==
    /\ mReq \in Requests
    /\ mPc = "call"
    /\ mOut = Err("pending")
    /\ NumIdle /\ CsvIdle /\ LifeIdle

SpecNum == NumInit /\ [][NumNext]_vars
SpecCsv == CsvInit /\ [][CsvNext]_vars
SpecMetrics == MetricsInit /\ [][MetricsNext]_vars

(***************************************************************************)
(* Claims about safe_float_convert (SpecNum)                               *)
(***************************************************************************)
\* C4: numeric coercion is total: for every string it returns a finite
\* number; "" and "0.000" give 0, a string that is not a number gives 0,
\* "1,234.00" gives 1234.0 and "abc" gives 0.
C4_CoercionFiniteOnStrings ==
    (numPc = "ret" /\ numIn.t = "str") =>
        /\ IsFinite(numOut)
        /\ numIn.s = <<>> => numOut = Zero
        /\ numIn.s = <<"0", ".", "0", "0", "0">> => numOut = Zero
        /\ numIn.s = <<"a", "b", "c">> => numOut = Zero
        /\ numIn.s = <<"1", ",", "2", "3", "4", ".", "0", "0">> => numOut = Fin(1234, 1)

(***************************************************************************)
(* Claims about csv_string_to_dataframe (SpecCsv)                          *)
(***************************************************************************)
\* C5: CSV normalization never raises and always returns a dataset; blank
\* text gives the empty dataset without any parse; the fallback is entered
\* exactly when the primary parse raised; a failing fallback gives the
\* empty dataset.
C5_NormalizationTotal ==
    /\ csvPc # "raised"
    /\ csvPc = "ret" =>
        /\ DOMAIN csvDf = {"columns", "rows", "index"}
        /\ IsBlank(csvText) => (csvDf = EmptyDataFrame /\ csvLog = NoLog)
        /\ csvLog.fallbackEntered <=> csvLog.primaryRaised
        /\ csvLog.primaryRaised <=> (~IsBlank(csvText) /\ ~read_csv(Strip(csvText)).ok)
        /\ csvLog.fallbackRaised => csvDf = EmptyDataFrame

\* C5 witness: both parses failed and the empty dataset came back
C5_BothParsesFailed ==
    csvPc = "ret" /\ csvLog.primaryRaised /\ csvLog.fallbackRaised /\ csvDf = EmptyDataFrame

\* What a cell shows: a missing value shows as the empty string
CellText(v) == IF v.t = "str" THEN v.s ELSE <<>>

\* C6: in every returned dataset each row has one value per header column,
\* a short input row right-padded with empty values and a long input row
\* right-truncated to the header width, whichever parse path produced it.
C6_RowsPaddedOrTruncated ==
    (csvPc = "ret" /\ ~IsEmptyDf(csvDf)) =>
        LET lines == PandasLines(Strip(csvText))
            n     == Len(lines[1])
        IN  /\ csvDf.columns = lines[1]
            /\ Len(csvDf.rows) = Len(lines) - 1
            /\ \A i \in 1..Len(csvDf.rows) :
                  /\ Len(csvDf.rows[i]) = n
                  /\ \A j \in 1..n :
                        CellText(csvDf.rows[i][j]) = NormalizeRow(lines[i + 1], n)[j]

(***************************************************************************)
(* Claims about calculate_variables (SpecMetrics)                          *)
(***************************************************************************)
\* The fields of each line of a CSV text, as written
RawRows(text) == PandasLines(Strip(text))

\* The request names its years as integers and its primary table has the
\* five expected headers and at least one data line
WellFormedTable1(req) ==
    /\ IntOfStr(req.selected_report_year).ok
    /\ IntOfStr(req.base_year).ok
    /\ Len(RawRows(req.word_table1_csv)) >= 2
    /\ RawRows(req.word_table1_csv)[1] = Table1Header

\* The data lines of the primary table's text, and field j of line i
RawLines(req) == 2..Len(RawRows(req.word_table1_csv))
RawField(req, i, j) == RawRows(req.word_table1_csv)[i][j]

\* C7: every percentage and ratio is 0 when its denominator is zero, no
\* division error is raised, and a total row of report=1000, base=800,
\* previous=900 gives 125.0 and 111.11.
C7_RatiosZeroSafe ==
    /\ mOut.err # "ZeroDivisionError"
    /\ mPc = "ret" =>
        LET v == mOut.v
            totals == {i \in RawLines(mReq) : RawField(mReq, i, 1) = TOTAL}
            first == CHOOSE i \in totals : \A j \in totals : i <= j
        IN  /\ ~NonZero(v.total_emission_base_year) =>
                  v.total_emission_report_year_vs_base_year = Zero
            /\ ~NonZero(v.total_emission_previous_year) =>
                  /\ v.total_emission_report_year_vs_previous_year = Zero
            /\ ~NonZero(v.total_emission_report_year) =>
                  /\ v.scope1_emission_rate_report_year = Zero
                  /\ v.scope2_emission_rate_report_year = Zero
                  /\ v.scope3_emission_rate_report_year = Zero
                  /\ v.rate_largest_emission_source_report_year = Zero
                  /\ v.rate_largest_emission_workplace_report_year = Zero
            /\ ~NonZero(v.revenue_report_year) => v.emission_vs_revenue_report_year = Zero
            /\ ~NonZero(v.revenue_previous_year) => v.emission_vs_revenue_previous_year = Zero
            /\ v.num_employee_report_year = 0 => v.emission_vs_employee_report_year = Zero
            /\ v.num_employee_previous_year = 0 => v.emission_vs_employee_previous_year = Zero
            /\ (/\ totals # {}
                /\ SubSeq(RawRows(mReq.word_table1_csv)[first], 3, 5) = <<Amt1000, Amt800, Amt900>>) =>
                  /\ v.total_emission_report_year_vs_base_year = Fin(125, 1)
                  /\ v.total_emission_report_year_vs_previous_year = Fin(11111, 100)

\* C8 as stated: a category label that differs from '총합' only by leading
\* or trailing whitespace is found.
C8_TrimmedLabelFound ==
    (mPc # "call" /\ WellFormedTable1(mReq)
        /\ {i \in RawLines(mReq) : Strip(RawField(mReq, i, 1)) = TOTAL} # {})
    => mOut.err # "ValueError: no total row"

\* C8 amended: lookups compare the cell or header exactly as parsed, without
\* trimming: a row or column is found only under the identical label.
C8_LabelsMatchExactly ==
    /\ (mPc # "call" /\ WellFormedTable1(mReq)) =>
          (mOut.err = "ValueError: no total row"
              <=> {i \in RawLines(mReq) : RawField(mReq, i, 1) = TOTAL} = {})
    /\ (mPc = "ret" /\ WellFormedTable1(mReq)
            /\ {i \in RawLines(mReq) : RawField(mReq, i, 1) = Scope1 /\ RawField(mReq, i, 2) = HAPGYE} = {})
          => mOut.v.scope1_emission_report_year = Zero
    /\ (mPc # "call" /\ IntOfStr(mReq.selected_report_year).ok
            /\ Len(RawRows(mReq.word_table1_csv)) >= 2
            /\ \A j \in 1..Len(RawRows(mReq.word_table1_csv)[1]) :
                  RawRows(mReq.word_table1_csv)[1][j] # GUBUN)
          => mOut.err = "KeyError"

\* C8 witness: a category cell ' 총합' was looked up and not found
C8_PaddedLabelNotFound ==
    /\ mPc = "raised" /\ WellFormedTable1(mReq)
    /\ {i \in RawLines(mReq) : Strip(RawField(mReq, i, 1)) = TOTAL /\ RawField(mReq, i, 1) # TOTAL} # {}
    /\ mOut.err = "ValueError: no total row"

\* The data lines of the primary table that name a Scope 1 or Scope 2 source
SourceLines(req) ==
    {i \in RawLines(req) : RawField(req, i, 1) \in {Scope1, Scope2} /\ RawField(req, i, 2) # HAPGYE}

\* The coerced report-year emission written on line i
Coerced(req, i) == safe_float_convert(Str(RawField(req, i, 3)))

\* The first line, in table order, whose coerced emission no other source line exceeds
FirstLargest(req) ==
    CHOOSE i \in SourceLines(req) :
        /\ \A j \in SourceLines(req) : ~Gt(Coerced(req, j), Coerced(req, i))
        /\ \A j \in SourceLines(req) : j < i => Gt(Coerced(req, i), Coerced(req, j))

\* C11: the largest emission source is the first row, in table order, with
\* the maximum coerced report-year emission among the Scope 1 / Scope 2 rows
\* that are not subtotals: its label, amount and share are reported; with no
\* such row the label is "N/A" and amount and share are 0.
C11_LargestSourceReported ==
    (mPc # "call" /\ WellFormedTable1(mReq)) =>
        /\ mOut.err # "idxmax: all NaN"
        /\ (mPc = "ret" /\ SourceLines(mReq) = {}) =>
              /\ mOut.v.name_largest_emission_source_report_year = Str(NA)
              /\ mOut.v.amount_largest_emission_source_report_year = Zero
              /\ mOut.v.rate_largest_emission_source_report_year = Zero
        /\ (mPc = "ret" /\ SourceLines(mReq) # {}) =>
              /\ CellText(mOut.v.name_largest_emission_source_report_year)
                    = RawField(mReq, FirstLargest(mReq), 2)
              /\ mOut.v.amount_largest_emission_source_report_year
                    = Coerced(mReq, FirstLargest(mReq))
              /\ mOut.v.rate_largest_emission_source_report_year
                    = Percent(Coerced(mReq, FirstLargest(mReq)), mOut.v.total_emission_report_year)

\* The lines of the per-site table's text, its site columns, and its lines
\* whose category is the grand total
SiteRows(req) == RawRows(req.word_table5_csv)

SiteCols(req) ==
    IF Len(SiteRows(req)) = 0 THEN {}
    ELSE {j \in 1..Len(SiteRows(req)[1]) : SiteRows(req)[1][j] \notin {GUBUN, SEBU, HAPGYE}}

GrandTotalLines(req) ==
    {i \in 2..Len(SiteRows(req)) :
        \E j \in 1..Len(SiteRows(req)[1]) :
            SiteRows(req)[1][j] = GUBUN /\ SiteRows(req)[i][j] = GRANDTOTAL}

\* The coerced value of site column j on the first grand-total line
SiteValue(req, j) ==
    safe_float_convert(Str(SiteRows(req)[CHOOSE i \in GrandTotalLines(req) :
                                            \A k \in GrandTotalLines(req) : i <= k][j]))

\* The first site, in column order, whose value no other site exceeds
FirstLargestSite(req) ==
    CHOOSE j \in SiteCols(req) :
        /\ \A k \in SiteCols(req) : ~Gt(SiteValue(req, k), SiteValue(req, j))
        /\ \A k \in SiteCols(req) : k < j => Gt(SiteValue(req, j), SiteValue(req, k))

\* C12: with a grand-total row in the per-site table, the largest emitting
\* site is the first column, in column order, with the maximum coerced value
\* in that row, reported with its name, value and share; an empty table, a
\* table without a grand-total row or without a site column gives "N/A", 0
\* and 0, and the metrics computation does not fail on the per-site table.
C12_LargestSiteReported ==
    (mPc # "call" /\ WellFormedTable1(mReq)) =>
        /\ mOut.err # "KeyError"
        /\ (mPc = "ret" /\ (GrandTotalLines(mReq) = {} \/ SiteCols(mReq) = {})) =>
              /\ mOut.v.name_largest_emission_workplace_report_year = NA
              /\ mOut.v.amount_largest_emission_workplace_report_year = Zero
              /\ mOut.v.rate_largest_emission_workplace_report_year = Zero
        /\ (mPc = "ret" /\ GrandTotalLines(mReq) # {} /\ SiteCols(mReq) # {}) =>
              /\ mOut.v.name_largest_emission_workplace_report_year
                    = SiteRows(mReq)[1][FirstLargestSite(mReq)]
              /\ mOut.v.amount_largest_emission_workplace_report_year
                    = SiteValue(mReq, FirstLargestSite(mReq))
              /\ mOut.v.rate_largest_emission_workplace_report_year
                    = Percent(SiteValue(mReq, FirstLargestSite(mReq)), mOut.v.total_emission_report_year)

\* The coerced scalar inputs of a request
CoercedInput(text) == safe_float_convert(Str(text))

\* A finite number with its fractional part dropped
TowardZero(x) == Fin(IF x.n >= 0 THEN x.n \div x.d ELSE -((-x.n) \div x.d), 1)

\* The four intensities that the metrics hold, given the two headcounts used
IntensitiesAre(headcount_report, headcount_previous) ==
    /\ mOut.v.emission_vs_revenue_report_year
          = Intensity(mOut.v.total_emission_report_year, CoercedInput(mReq.report_sales), 4)
    /\ mOut.v.emission_vs_employee_report_year
          = Intensity(mOut.v.total_emission_report_year, headcount_report, 2)
    /\ mOut.v.emission_vs_revenue_previous_year
          = Intensity(mOut.v.total_emission_previous_year, CoercedInput(mReq.report_sales_last_year), 4)
    /\ mOut.v.emission_vs_employee_previous_year
          = Intensity(mOut.v.total_emission_previous_year, headcount_previous, 2)

\* C13 as stated: the intensities are total / revenue rounded to 4 places
\* and total / headcount rounded to 2 places, 0 on a zero denominator, for
\* the report year and for the previous year, and the headcount used as
\* denominator is the coerced headcount input itself.
C13_HeadcountAsCoerced ==
    mPc = "ret" =>
        IntensitiesAre(CoercedInput(mReq.report_employees),
                       CoercedInput(mReq.report_employees_last_year))

\* C13: the intensities are total / revenue rounded to 4 places and
\* total / headcount rounded to 2 places, 0 on a zero denominator, for the
\* report year and for the previous year, where the headcount is the coerced
\* headcount input with its fractional part dropped; a headcount input that
\* coerces to NaN or to an infinity makes the metrics computation fail.
C13_HeadcountTruncated ==
    /\ mPc = "ret" =>
          /\ IsFinite(CoercedInput(mReq.report_employees))
          /\ IsFinite(CoercedInput(mReq.report_employees_last_year))
          /\ IntensitiesAre(TowardZero(CoercedInput(mReq.report_employees)),
                            TowardZero(CoercedInput(mReq.report_employees_last_year)))
    /\ (mPc # "call" /\ ~IsFinite(CoercedInput(mReq.report_employees))) => mPc = "raised"

\* Metrics returned for a fractional headcount and a non-zero finite total in
\* both years
C13_FractionalHeadcounts ==
    /\ mPc = "ret"
    /\ CoercedInput(mReq.report_employees) = Fin(5, 2)
    /\ CoercedInput(mReq.report_employees_last_year) = Fin(1, 2)
    /\ IsFinite(mOut.v.total_emission_report_year) /\ NonZero(mOut.v.total_emission_report_year)
    /\ IsFinite(mOut.v.total_emission_previous_year) /\ NonZero(mOut.v.total_emission_previous_year)
    /\ NonZero(CoercedInput(mReq.report_sales))

(***************************************************************************)
(* Claims about generate_report (Spec)                                     *)
(***************************************************************************)
\* The chart text as written: no data line, fewer than three category rows,
\* or fewer than three year columns after the label column
ChartUndrawable(req) ==
    \/ Len(RawRows(req.word_chart1_csv)) < 4
    \/ Len(RawRows(req.word_chart1_csv)[1]) < 4

\* What the text of each enumerated payload says about its tables
Facts ==
    [k \in 1..Len(Payloads) |->
        [ empty    |-> Len(RawRows(Payloads[k].word_table1_csv)) < 2,
          noTotal  |-> /\ WellFormedTable1(Payloads[k])
                       /\ {i \in RawLines(Payloads[k]) : RawField(Payloads[k], i, 1) = TOTAL} = {},
          chartBad |-> ChartUndrawable(Payloads[k]),
          chartEmpty |-> Len(RawRows(Payloads[k].word_chart1_csv)) < 2 ]]

\* The handler of r is past its call of calculate_variables
MetricsRan(r) == pc[r] \notin {"waiting", "mkdtemp", "calculate_variables"} /\ errAt[r] # "mkdtemp"

\* No directory of the file system belongs to r
NoDirectoryOf(r) == \A n \in DirNames : fs[n].owner # r

\* C1: no terminated request leaves its temporary directory behind: it is
\* deleted after the response was sent when the request succeeds, and
\* before the error is returned when a step fails.
C1_NoDirectoryLeftBehind ==
    \A r \in Reqs : pc[r] \in {"sent", "failed"} => NoDirectoryOf(r)

\* C2: a request ends in one of two outcomes: a document response, given
\* only after the metrics, every render step and the save have completed;
\* or an error response, at which point its directory with the chart image
\* and any document file is gone.  A failure at any step leads to the error
\* response.
C2_DocumentOrCleanError ==
    \A r \in Reqs :
        /\ response[r] \in {"none", "FileResponse", "HTTPException"}
        /\ pc[r] \in {"sending", "sent"} <=> response[r] = "FileResponse"
        /\ pc[r] = "failed" <=> response[r] = "HTTPException"
        /\ response[r] = "FileResponse" =>
              /\ variables[r].ok /\ errAt[r] = "none"
              /\ doc[r].head /\ chart_path[r] # "unset" /\ doc[r].rest
              /\ fs[temp_dir[r]].owner = r /\ "docx" \in fs[temp_dir[r]].files
        /\ response[r] = "HTTPException" => (errAt[r] # "none" /\ NoDirectoryOf(r))
        /\ errAt[r] # "none" => pc[r] \in {"except", "failed"}

\* C2 witness: the save failed with the file written in part, and the error
\* response was given with the directory gone
C2_SaveFailedAndCleaned ==
    \E r \in Reqs :
        /\ errAt[r] = "save" /\ "docx" \in written[r] /\ temp_dir[r] # 0
        /\ response[r] = "HTTPException" /\ NoDirectoryOf(r)

\* C3: metrics computation fails with a validation error, and no document
\* is produced, whenever the primary table is empty or has no row whose
\* category is '총합'; the empty check is made first; no bundle is returned.
C3_MetricsRejectTable ==
    \A r \in Reqs :
        (MetricsRan(r) /\ (Facts[payload[r]].empty \/ Facts[payload[r]].noTotal)) =>
            /\ ~variables[r].ok
            /\ variables[r].err = IF Facts[payload[r]].empty THEN "ValueError: Table1 empty"
                                   ELSE "ValueError: no total row"
            /\ errAt[r] = "calculate_variables"
            /\ doc[r] = NoDoc /\ "docx" \notin written[r]
            /\ response[r] # "FileResponse"

\* C3 witness: one request failed on its empty table and another on its
\* table without a '총합' row
C3_BothValidationsFailed ==
    \E r1, r2 \in Reqs :
        /\ pc[r1] = "failed" /\ Facts[payload[r1]].empty
        /\ variables[r1].err = "ValueError: Table1 empty"
        /\ pc[r2] = "failed" /\ Facts[payload[r2]].noTotal
        /\ variables[r2].err = "ValueError: no total row"

\* C9: a chart failure is never fatal: when the chart text is empty or the
\* drawing fails, create_emission_chart returns None without raising, the
\* rest of the document is assembled without the image, and the request
\* can still end with a document response.
C9_ChartFailureNotFatal ==
    \A r \in Reqs :
        /\ errAt[r] # "create_emission_chart"
        /\ chart_path[r] \in {"unset", "None", "path"}
        /\ (chart_path[r] # "unset" /\ Facts[payload[r]].chartBad) => chart_path[r] = "None"
        /\ chart_path[r] = "None" =>
              /\ ~doc[r].image
              /\ doc[r].head
              /\ errAt[r] \in {"none", "add_table_from_dataframe", "save"}
              /\ response[r] = "FileResponse" => doc[r].rest

\* C9 witness: the drawing failed on a chart of two category rows and the
\* request was answered with the document, complete but for the image
C9_DocumentWithoutImage ==
    \E r \in Reqs :
        /\ Facts[payload[r]].chartBad /\ ~Facts[payload[r]].chartEmpty
        /\ chart_path[r] = "None" /\ doc[r] = [head |-> TRUE, image |-> FALSE, rest |-> TRUE]
        /\ response[r] = "FileResponse" /\ pc[r] = "sent"

\* C10: requests share no mutable state: the process-wide plotting
\* configuration and caches are never written after initialization.
C10_ProcessStateNeverWritten == [][rcParams' = rcParams /\ figs' = figs]_vars

\* The steps of a request in their order, and the places from which an
\* exception leaves the order
StepOrder ==
    { <<"waiting", "mkdtemp">>, <<"mkdtemp", "calculate_variables">>,
      <<"calculate_variables", "render">>, <<"render", "chart">>, <<"chart", "rest">>,
      <<"rest", "save">>, <<"save", "respond">>, <<"respond", "sending">>,
      <<"sending", "sent">>, <<"except", "failed">> }
    \cup { <<step, "except">> :
             step \in {"mkdtemp", "calculate_variables", "render", "chart", "rest", "save"} }

MetricsFailed(r) == ~variables[r].ok /\ variables[r].err # "pending"

\* C14: the steps of a request run in the order create temp directory,
\* compute metrics, render (with the chart image), save, respond; rendering
\* starts only after the metrics computation has succeeded, so a request
\* whose metrics computation fails never writes a chart image or a document
\* file into its temporary directory.
C14_StepsInFixedOrder ==
    /\ [][\A r \in Reqs : pc'[r] # pc[r] => <<pc[r], pc'[r]>> \in StepOrder]_vars
    /\ [](\A r \in Reqs :
            /\ pc[r] \in {"render", "chart", "rest", "save", "respond", "sending", "sent"}
                  => (variables[r].ok /\ temp_dir[r] # 0)
            /\ MetricsRan(r) => temp_dir[r] # 0
            /\ MetricsFailed(r) => (written[r] = {} /\ doc[r] = NoDoc)
            /\ written[r] # {} => (variables[r].ok /\ doc[r].head)
            /\ "docx" \in written[r] => (doc[r].head /\ doc[r].rest)
            /\ response[r] = "FileResponse" => "docx" \in written[r])

\* One request failed in its metrics computation and wrote nothing, another
\* went through every step and wrote the chart image and the document
C14_FailedEarlyAndServed ==
    \E r, q \in Reqs :
        /\ pc[r] = "failed" /\ MetricsFailed(r) /\ written[r] = {}
        /\ pc[q] = "sent" /\ written[q] = {"Chart1.png", "docx"}

====
